---- MODULE Spec2Model ----
(***************************************************************************)
(* Alert fan-out and delivery tracking of the health surveillance system:  *)
(* subscriber resolution, per-channel dispatch with delivery logging and   *)
(* the real-time group broadcast (apps/alerts/services.py, models.py).     *)
(***************************************************************************)
EXTENDS Integers, Sequences, FiniteSets, TLC

\* ------------------------------------------------------------------ bounds
\* rows of the alert_subscriptions table
MaxSubs == 2
\* completed fan-out rounds of one alert
MaxRounds == 2
\* ticks of the clock
MaxTime == 1

\* ------------------------------------------------------- values and fixtures
\* a NULL column / None
NULL == "NULL"
\* a key that a returned dict does not hold
NoKey == "<no key>"
\* no alert row stored yet
NoAlert == [alert_type |-> NULL]
\* a DateTimeField that is NULL (null=True, blank=True)
NoTime == -1

Users == {"U1", "U2"}
Villages == {"V1", "V2"}
Districts == {"D1", "D2"}
States == {"S1", "S2"}

\* Village.block.district
block_district(v) == IF v = "V1" THEN "D1" ELSE "D2"

\* District.state (both districts of the fixture lie in S1; S2 is unrelated)
district_state(d) == "S1"

ALERT_TYPES == {"WATER_CONTAMINATION", "OUTBREAK_PREDICTED"}
ALERT_SEVERITY == {"LOW", "MEDIUM", "HIGH", "CRITICAL"}
DELIVERY_STATUS == {"PENDING", "SENT", "DELIVERED", "FAILED", "BOUNCED", "UNSUBSCRIBED"}
DELIVERY_METHODS == {"EMAIL", "SMS", "WHATSAPP", "PUSH", "DASHBOARD"}

\* severity_order = ['LOW', 'MEDIUM', 'HIGH', 'CRITICAL']
severity_order == <<"LOW", "MEDIUM", "HIGH", "CRITICAL">>

\* severity_order.index(x); the ValueError case is InOrder(x) = FALSE
InOrder(x) == \E k \in DOMAIN severity_order : severity_order[k] = x
index(x) == CHOOSE k \in DOMAIN severity_order : severity_order[k] = x

Scope(v, d, s) == [village |-> v, district |-> d, state |-> s]

\* an AlertSubscription row
Sub(u, t, a, sc, m, ms) ==
    [user |-> u, alert_type |-> t, is_active |-> a,
     village |-> sc.village, district |-> sc.district, state |-> sc.state,
     min_severity |-> m, delivery_methods |-> ms]

ALERT_STATUS == {"ACTIVE", "ACKNOWLEDGED", "RESOLVED", "CANCELLED", "ESCALATED"}

\* an AlertNotification row as created (status ACTIVE, nobody acknowledged or
\* resolved it, no delivery round yet); triggered_at is filled in on insert
Alert(t, sev, sc) ==
    [alert_type |-> t, alert_severity |-> sev, alert_status |-> "ACTIVE",
     village |-> sc.village, district |-> sc.district, state |-> sc.state,
     acknowledged_by |-> NULL, resolved_by |-> NULL,
     triggered_at |-> NoTime, acknowledged_at |-> NoTime, resolved_at |-> NoTime,
     delivery_attempts |-> 0, last_delivery_attempt |-> NoTime]

\* ------------------------------------------------------------ input domains
SubScopes ==
    { Scope(NULL, NULL, NULL), Scope(NULL, "D1", NULL),
      Scope("V1", NULL, NULL), Scope("V2", NULL, NULL) }

AlertScopes ==
    { Scope("V1", NULL, NULL), Scope("V1", "D1", "S1"), Scope(NULL, "D1", NULL),
      Scope(NULL, NULL, "S1"), Scope(NULL, NULL, NULL) }

\* subscriptions of U1 that differ in place only
ScopeVariants ==
    { Sub("U1", "WATER_CONTAMINATION", TRUE, sc, "MEDIUM", <<"EMAIL", "DASHBOARD">>) :
        sc \in SubScopes }

\* state-wide subscriptions that differ in owner, activity, severity gate, channels
AttributeVariants ==
    { Sub("U2", "WATER_CONTAMINATION", TRUE, Scope(NULL, NULL, "S1"), m, <<"SMS">>) :
        m \in {"LOW", "CRITICAL"} }
    \cup
    { Sub("U1", "WATER_CONTAMINATION", FALSE, Scope(NULL, NULL, "S1"), "LOW", <<"SMS">>),
      Sub("U1", "WATER_CONTAMINATION", TRUE, Scope(NULL, NULL, "S1"), "LOW",
          <<"PUSH", "EMAIL", "FAX">>) }

OtherCategory ==
    { Sub("U2", "OUTBREAK_PREDICTED", TRUE, Scope(NULL, NULL, NULL), "LOW", <<"PUSH">>) }

SubscriptionInputs == ScopeVariants \cup AttributeVariants \cup OtherCategory

\* alert_severity is a CharField whose choices the database does not enforce
AlertInputs ==
    { Alert("WATER_CONTAMINATION", "HIGH", sc) : sc \in AlertScopes }
    \cup { Alert("WATER_CONTAMINATION", "SEVERE", Scope("V1", "D1", "S1")) }

\* contact data of a user row: email and phone_number may be blank
Profiles ==
    { [email |-> TRUE, phone_number |-> TRUE],
      [email |-> FALSE, phone_number |-> TRUE],
      [email |-> TRUE, phone_number |-> FALSE] }

\* what the outside world does during one call: the mail transport, the
\* messaging provider (TWILIO_ACCOUNT_SID unset, or a call that works or raises)
\* and the channel layer; at most one of them misbehaves in one call
Env(m, t, l) == [mail |-> m, twilio |-> t, layer |-> l]

Environments ==
    { Env("ok", "unconfigured", "ok"), Env("ok", "ok", "ok"),
      Env("error", "unconfigured", "ok"), Env("ok", "error", "ok"),
      Env("ok", "unconfigured", "absent"), Env("ok", "unconfigured", "error") }

\* no websocket connection open
NoListener == [consumer |-> NULL]

\* no call of a rule or formatter made yet
NoCall == [op |-> "none"]

\* no OutbreakPredictor object constructed yet
NoPredictor == [classifier |-> NULL]

\* the artifact files of the trained model
Artifacts ==
    {"classifier", "regressor", "safety_classifier", "disease_classifier",
     "encoders", "scaler"}

\* every artifact file in place and readable
Trained == [f \in Artifacts |-> "ok"]

\* the processes that run operations of the alert service at the same time
Workers == {"W1", "W2"}

\* a process between two operations
Idle == [pc |-> "idle"]

VARIABLES users, subs, alert, logs, published, result, dispatch, now, rounds,
          listener, lastcall, files, predictor, workers

\* the state outside the alert tables: the last rule or formatter call, the
\* model artifacts on disk, the predictor object, the concurrent processes
aside == <<lastcall, files, predictor, workers>>

vars == <<users, subs, alert, logs, published, result, dispatch, now, rounds,
          listener, aside>>

AsideInit ==
    /\ lastcall = NoCall
    /\ files = Trained
    /\ predictor = NoPredictor
    /\ workers = [w \in Workers |-> Idle]


\* ------------------------------------------------------ subscriber resolver
\* the geographic Q filter of get_alert_subscribers, one branch per scope
\* field set on the alert; a comparison with a non-NULL value never matches NULL
GeoFilter(a, s) ==
    IF a.village # NULL
    THEN \/ s.village = a.village
         \/ (s.village = NULL /\ s.district = block_district(a.village))
         \/ (s.village = NULL /\ s.district = NULL
             /\ s.state = district_state(block_district(a.village)))
    ELSE IF a.district # NULL
    THEN \/ s.district = a.district
         \/ (s.district = NULL /\ s.state = district_state(a.district))
    ELSE IF a.state # NULL
    THEN \/ s.state = a.state
         \/ s.state = NULL
    ELSE TRUE

\* the rows of the filtered queryset
Filtered(a, s) ==
    /\ s.alert_type = a.alert_type
    /\ s.is_active
    /\ GeoFilter(a, s)

\* alert_severity_index >= min_severity_index
SeverityGate(a, s) == index(a.alert_severity) >= index(s.min_severity)

\* the rows whose user the loop appends
Admits(a, s) == Filtered(a, s) /\ SeverityGate(a, s)

\* the two severity_order.index calls raise ValueError outside the list
ResolverRaises(a, ss) ==
    \/ ~InOrder(a.alert_severity)
    \/ \E i \in DOMAIN ss : Filtered(a, ss[i]) /\ ~InOrder(ss[i].min_severity)

\* primary keys of the admitted rows
AdmittedRows(a, ss) == { i \in DOMAIN ss : Admits(a, ss[i]) }

RECURSIVE UsersOf(_)
UsersOf(rows) ==
    IF rows = <<>> THEN <<>> ELSE <<Head(rows).user>> \o UsersOf(Tail(rows))

\* the list `subscribers` before duplicates are removed, in queryset order
Appended(a, ss) == UsersOf(SelectSeq(ss, LAMBDA s : Admits(a, s)))

\* primary key of a user row
user_pk(u) == IF u = "U1" THEN 1 ELSE 2

\* list(set(xs)): every element once; a set of model instances hashes by primary
\* key, and a small set of small integers is iterated in increasing order
RECURSIVE InPkOrder(_)
InPkOrder(S) ==
    IF S = {} THEN <<>>
    ELSE LET u == CHOOSE x \in S : \A y \in S : user_pk(x) <= user_pk(y)
         IN  <<u>> \o InPkOrder(S \ {u})

\* the list returned as it was built, duplicates kept
list_set_kept(xs) == xs

list_set(xs) == InPkOrder({ xs[i] : i \in DOMAIN xs })

\* the list get_alert_subscribers returns when it does not raise
get_alert_subscribers(a, ss) == list_set(Appended(a, ss))

\* --------------------------------------------------------- channel adapters
\* a returned dict: success, status, error, response (NoKey: key absent)
Outcome(ok, st, err, resp) ==
    [success |-> ok, status |-> st, error |-> err, response |-> resp]

send_email(profile, env) ==
    IF ~profile.email
    THEN Outcome(FALSE, NoKey, "User has no email address", NoKey)
    ELSE IF env.mail = "error"
    THEN Outcome(FALSE, "FAILED", "transport error", NoKey)
    ELSE Outcome(TRUE, "SENT", NoKey, "email")

send_sms(profile, env) ==
    IF ~profile.phone_number
    THEN Outcome(FALSE, NoKey, "User has no phone number", NoKey)
    ELSE IF env.twilio = "error"
    THEN Outcome(FALSE, "FAILED", "provider error", NoKey)
    ELSE IF env.twilio = "ok"
    THEN Outcome(TRUE, "SENT", NoKey, "message_sid")
    ELSE Outcome(TRUE, "SENT", NoKey, "test_mode")

send_whatsapp(profile, env) ==
    IF ~profile.phone_number
    THEN Outcome(FALSE, NoKey, "User has no phone number", NoKey)
    ELSE IF env.twilio = "error"
    THEN Outcome(FALSE, "FAILED", "provider error", NoKey)
    ELSE IF env.twilio = "ok"
    THEN Outcome(TRUE, "SENT", NoKey, "message_sid")
    ELSE Outcome(TRUE, "SENT", NoKey, "test_mode")

send_push_notification(profile, env) == Outcome(TRUE, "SENT", NoKey, "test_mode")

\* the broadcast swallows its own errors, so the adapter always reports SENT
send_dashboard_notification(profile, env) ==
    Outcome(TRUE, "SENT", NoKey, "websocket_sent")

send_via_method(profile, method, env) ==
    CASE method = "EMAIL" -> send_email(profile, env)
      [] method = "SMS" -> send_sms(profile, env)
      [] method = "WHATSAPP" -> send_whatsapp(profile, env)
      [] method = "PUSH" -> send_push_notification(profile, env)
      [] method = "DASHBOARD" -> send_dashboard_notification(profile, env)
      [] OTHER -> Outcome(FALSE, NoKey, "Unknown delivery method", NoKey)

\* --------------------------------------------------------- real-time push
Message(group) == [group |-> group, type |-> "new_alert"]

\* the group_send calls of one notification: the user's group if a user is
\* given, else one group per scope field set on the alert row
GroupSends(a, user) ==
    IF user # NULL THEN { Message("alerts_user_" \o user) }
    ELSE (IF a.village # NULL THEN { Message("alerts_village_" \o a.village) } ELSE {})
         \cup (IF a.district # NULL THEN { Message("alerts_district_" \o a.district) } ELSE {})
         \cup (IF a.state # NULL THEN { Message("alerts_state_" \o a.state) } ELSE {})

\* no handler around the body: an error of group_send leaves the call
send_websocket_notification_raises(a, user, env) ==
    [raised |-> env.layer = "error",
     messages |-> IF env.layer # "ok" THEN {} ELSE GroupSends(a, user)]

\* what one call publishes and whether an exception leaves it: nothing is sent
\* without a channel layer, and an error of group_send is logged and swallowed
send_websocket_notification(a, user, env) ==
    [raised |-> FALSE,
     messages |-> IF env.layer # "ok" THEN {} ELSE GroupSends(a, user)]


\* ------------------------------------------------------ delivery dispatcher
\* an AlertDeliveryLog row; delivery_attempt is left at the column default
LogRow(user, method, r) ==
    [user |-> user, delivery_method |-> method, delivery_status |-> r.status,
     error_message |-> IF r.error = NoKey THEN "" ELSE r.error,
     delivery_attempt |-> 1]

\* AlertSubscription.objects.filter(user=user, alert_type=...).first():
\* the primary key of the first row of that user and category, 0 if there is none
FirstSubscription(user, a, ss) ==
    LET mine == { i \in DOMAIN ss : ss[i].user = user /\ ss[i].alert_type = a.alert_type }
    IN  IF mine = {} THEN 0 ELSE CHOOSE i \in mine : \A j \in mine : i <= j

\* reading result['status'] raises KeyError when the dict holds no status
StatusKeyError(r) == r.status = NoKey

\* the loop over subscription.delivery_methods: acc holds the adapter calls made
\* (attempts), the rows created (rows), the messages published and whether the
\* loop was left by an exception
RECURSIVE DeliveryLoop(_, _, _, _, _, _)
DeliveryLoop(a, user, profile, methods, env, acc) ==
    IF methods = <<>> THEN acc
    ELSE LET m == Head(methods)
             r == send_via_method(profile, m, env)
             pub == IF m = "DASHBOARD"
                    THEN send_websocket_notification(a, user, env).messages ELSE {}
             called == [acc EXCEPT
                          !.attempts = Append(@, [user |-> user, delivery_method |-> m,
                                                  outcome |-> r]),
                          !.published = @ \cup pub]
         IN  IF StatusKeyError(r)
             THEN [called EXCEPT !.raised = TRUE]
             ELSE DeliveryLoop(a, user, profile, Tail(methods), env,
                               [called EXCEPT !.rows = Append(@, LogRow(user, m, r))])

\* the dict send_to_subscriber returns (ret) and what the call did
send_to_subscriber(a, user, ss, profiles, env) ==
    LET pk == FirstSubscription(user, a, ss)
        empty == [attempts |-> <<>>, rows |-> <<>>, published |-> {}, raised |-> FALSE]
    IN  IF pk = 0
        THEN empty @@
             [ret |-> [user |-> user, success |-> FALSE, error |-> "No subscription found"],
              used |-> 0]
        ELSE LET done == DeliveryLoop(a, user, profiles[user],
                                      ss[pk].delivery_methods, env, empty)
                 ok == \E k \in DOMAIN done.attempts : done.attempts[k].outcome.success
             IN  done @@
                 [ret |-> IF done.raised
                          THEN [user |-> user, success |-> FALSE, error |-> "'status'"]
                          ELSE [user |-> user, success |-> ok, error |-> NoKey],
                  used |-> pk]

\* the loop of send_alert over the resolved subscribers
RECURSIVE FanOut(_, _, _, _, _, _)
FanOut(a, subscribers, ss, profiles, env, acc) ==
    IF subscribers = <<>> THEN acc
    ELSE LET one == send_to_subscriber(a, Head(subscribers), ss, profiles, env)
         IN  FanOut(a, Tail(subscribers), ss, profiles, env,
                    [attempts |-> acc.attempts \o one.attempts,
                     rows |-> acc.rows \o one.rows,
                     published |-> acc.published \cup one.published,
                     results |-> Append(acc.results, one.ret),
                     used |-> acc.used \cup {[user |-> Head(subscribers),
                                               pk |-> one.used]}])

\* the empty list taken for a list of subscribers
NoSubscribers_never(subscribers) == FALSE

\* `if not subscribers`
NoSubscribers(subscribers) == subscribers = <<>>

\* a value send_alert hands to its caller: kind tells a returned dict from an
\* exception leaving the call; -1 stands for a count the dict does not hold
Returned(ok, err, total, good, results) ==
    [kind |-> "returned", success |-> ok, error |-> err,
     total_subscribers |-> total, successful_deliveries |-> good, results |-> results]

Raised(err) ==
    [kind |-> "raised", success |-> FALSE, error |-> err,
     total_subscribers |-> -1, successful_deliveries |-> -1, results |-> <<>>]

NoResult ==
    [kind |-> "none", success |-> FALSE, error |-> NoKey,
     total_subscribers |-> -1, successful_deliveries |-> -1, results |-> <<>>]

\* no handler: the exception leaves send_alert
Catch_propagates(out) == out

\* the try/except Exception around the body of send_alert
Catch(out) ==
    IF out.kind = "raised"
    THEN Returned(FALSE, out.error, -1, -1, <<>>)
    ELSE out

\* sum(1 for r in results if r['success'])
Successful(results) == Cardinality({ k \in DOMAIN results : results[k].success })

\* what the call of send_alert that has just returned did, for the properties to
\* read (cleared, like the returned value, by the next operation): whether the
\* resolver returned, the rows its query ranged over, the rows admitted, the list
\* returned, the adapter calls in order, the log rows created, for each
\* subscriber the subscription row whose channel list was taken, and the
\* messages of the scope-wide broadcast; op names the operation, layer is the
\* condition of the channel layer during it and at the time it began
NoDispatch ==
    [op |-> "none", layer |-> "none", at |-> NoTime,
     resolved |-> FALSE, queried |-> {}, admitted |-> {}, subscribers |-> <<>>,
     attempts |-> <<>>, rows |-> <<>>, used |-> {}, broadcast |-> {}]

\* ------------------------------------------------------------------ actions
Init ==
    /\ users \in [Users -> Profiles]
    /\ users["U2"] = [email |-> TRUE, phone_number |-> TRUE]
    /\ subs = <<>>
    /\ alert = NoAlert
    /\ logs = <<>>
    /\ published = {}
    /\ result = NoResult
    /\ dispatch = NoDispatch
    /\ now = 0
    /\ rounds = 0
    /\ listener = NoListener
    /\ AsideInit

\* unique_together: two rows of one user and category may not name the same
\* state, district and village (NULLs never collide)
Collides(s, ss) ==
    /\ s.village # NULL /\ s.district # NULL /\ s.state # NULL
    /\ \E i \in DOMAIN ss :
         /\ ss[i].user = s.user /\ ss[i].alert_type = s.alert_type
         /\ ss[i].village = s.village /\ ss[i].district = s.district
         /\ ss[i].state = s.state

\* AlertSubscription.objects.create(...)
CreateSubscription ==
    /\ Len(subs) < MaxSubs
    /\ \E s \in SubscriptionInputs :
         /\ ~Collides(s, subs)
         /\ subs' = Append(subs, s)
    /\ result' = NoResult
    /\ dispatch' = NoDispatch
    /\ published' = {}
    /\ UNCHANGED <<users, alert, logs, now, rounds, listener>>
    /\ UNCHANGED aside

\* AlertNotification.objects.create(...); triggered_at is auto_now_add
CreateAlert ==
    /\ alert = NoAlert
    /\ \E a \in AlertInputs : alert' = [a EXCEPT !.triggered_at = now]
    /\ UNCHANGED <<users, subs, logs, published, result, dispatch, now, rounds,
                   listener>>
    /\ UNCHANGED aside

\* the row is not written back
RoundSaved_lost(a) == a

\* the bookkeeping of a fan-out round: delivery_attempts += 1,
\* last_delivery_attempt = triggered_at, save()
RoundSaved(a) ==
    [a EXCEPT !.delivery_attempts = @ + 1, !.last_delivery_attempt = a.triggered_at]

\* AlertService.send_alert(alert), the whole call: the dict handed back (ret),
\* the rows created, the messages published, the alert row as saved, and the
\* record of the call
send_alert(a, ss, profiles, env) ==
    IF ResolverRaises(a, ss)
    THEN [ret |-> Catch(Raised("ValueError")), rows |-> <<>>, published |-> {},
          saved |-> a,
          did |-> [NoDispatch EXCEPT !.op = "send_alert", !.layer = env.layer,
                                     !.queried = DOMAIN ss]]
    ELSE LET subscribers == get_alert_subscribers(a, ss)
             seen == [NoDispatch EXCEPT !.op = "send_alert", !.layer = env.layer,
                                        !.resolved = TRUE,
                                        !.queried = DOMAIN ss,
                                        !.admitted = AdmittedRows(a, ss),
                                        !.subscribers = subscribers]
         IN  IF NoSubscribers(subscribers)
             THEN [ret |-> Catch(Returned(FALSE, "No subscribers found", -1, -1, <<>>)),
                   rows |-> <<>>, published |-> {}, saved |-> a, did |-> seen]
             ELSE LET fan == FanOut(a, subscribers, ss, profiles, env,
                                    [attempts |-> <<>>, rows |-> <<>>, published |-> {},
                                     results |-> <<>>, used |-> {}])
                      cast == send_websocket_notification(a, NULL, env)
                      good == Successful(fan.results)
                      did == [seen EXCEPT !.attempts = fan.attempts,
                                          !.rows = fan.rows,
                                          !.used = fan.used,
                                          !.broadcast = cast.messages]
                  IN  IF cast.raised
                      THEN [ret |-> Catch(Raised("channel layer")),
                            rows |-> fan.rows,
                            published |-> fan.published \cup cast.messages,
                            saved |-> a, did |-> did]
                      ELSE [ret |-> Catch(Returned(good > 0, NoKey, Len(subscribers),
                                                   good, fan.results)),
                            rows |-> fan.rows,
                            published |-> fan.published \cup cast.messages,
                            saved |-> RoundSaved(a), did |-> did]

\* rounds counts the calls that went through the fan-out loop
SendAlert ==
    /\ alert # NoAlert
    /\ rounds < MaxRounds
    /\ \E env \in Environments :
         \E call \in {send_alert(alert, subs, users, env)} :
             /\ result' = call.ret
             /\ logs' = logs \o call.rows
             /\ published' = call.published
             /\ alert' = call.saved
             /\ dispatch' = [call.did EXCEPT !.at = now]
             /\ rounds' = IF call.did.subscribers # <<>> THEN rounds + 1 ELSE rounds
    /\ UNCHANGED <<users, subs, now, listener>>
    /\ UNCHANGED aside

Next ==
    \/ CreateSubscription
    \/ CreateAlert
    \/ SendAlert

Spec == Init /\ [][Next]_vars


\* ---------------------------------------------------------- alert lifecycle
\* time passes
Tick ==
    /\ now < MaxTime
    /\ now' = now + 1
    /\ UNCHANGED <<users, subs, alert, logs, published, result, dispatch, rounds,
                   listener>>
    /\ UNCHANGED aside

\* the True or False an operation hands back
Flag(b) == [NoResult EXCEPT !.kind = "returned", !.success = b]

\* the status alone is written
acknowledge_alert_status_only(a, user, t, env) ==
    LET saved == [a EXCEPT !.alert_status = "ACKNOWLEDGED"]
        cast == send_websocket_notification(saved, NULL, env)
    IN  [ret |-> ~cast.raised, saved |-> saved, published |-> cast.messages]

\* AlertService.acknowledge_alert(alert, user) at time t: status, actor and time
\* are set and saved, the row is broadcast, True is returned; an exception
\* after the save leaves the row saved and returns False
acknowledge_alert(a, user, t, env) ==
    LET saved == [a EXCEPT !.alert_status = "ACKNOWLEDGED",
                           !.acknowledged_by = user,
                           !.acknowledged_at = t]
        cast == send_websocket_notification(saved, NULL, env)
    IN  [ret |-> ~cast.raised, saved |-> saved, published |-> cast.messages]

\* AlertService.resolve_alert(alert, user, notes) at time t
resolve_alert(a, user, t, env) ==
    LET saved == [a EXCEPT !.alert_status = "RESOLVED",
                           !.resolved_by = user,
                           !.resolved_at = t]
        cast == send_websocket_notification(saved, NULL, env)
    IN  [ret |-> ~cast.raised, saved |-> saved, published |-> cast.messages]

\* the record of a call that changed the status of the alert
StatusCall(op, env, call) ==
    /\ result' = Flag(call.ret)
    /\ published' = call.published
    /\ alert' = call.saved
    /\ dispatch' = [NoDispatch EXCEPT !.op = op, !.layer = env.layer, !.at = now,
                                      !.broadcast = call.published]

AcknowledgeAlert ==
    /\ alert # NoAlert
    /\ \E user \in Users, env \in Environments :
         StatusCall("acknowledge_alert", env, acknowledge_alert(alert, user, now, env))
    /\ UNCHANGED <<users, subs, logs, now, rounds, listener>>
    /\ UNCHANGED aside

ResolveAlert ==
    /\ alert # NoAlert
    /\ \E user \in Users, env \in Environments :
         StatusCall("resolve_alert", env, resolve_alert(alert, user, now, env))
    /\ UNCHANGED <<users, subs, logs, now, rounds, listener>>
    /\ UNCHANGED aside

\* the subscription tables the lifecycle is explored with
LifecycleSubs ==
    { <<>>,
      <<Sub("U1", "WATER_CONTAMINATION", TRUE, Scope(NULL, NULL, "S1"), "MEDIUM",
            <<"EMAIL", "DASHBOARD">>)>> }

LifecycleInit ==
    /\ users = [u \in Users |-> [email |-> TRUE, phone_number |-> TRUE]]
    /\ subs \in LifecycleSubs
    /\ alert = NoAlert
    /\ logs = <<>>
    /\ published = {}
    /\ result = NoResult
    /\ dispatch = NoDispatch
    /\ now = 0
    /\ rounds = 0
    /\ listener = NoListener
    /\ AsideInit

LifecycleNext ==
    \/ Tick
    \/ CreateAlert
    \/ SendAlert
    \/ AcknowledgeAlert
    \/ ResolveAlert

Lifecycle == LifecycleInit /\ [][LifecycleNext]_vars

\* -------------------------------------------------------- listener streams
\* websocket_urlpatterns: the consumers a client can connect to
Consumers == {"AlertConsumer", "DashboardAlertConsumer", "StateAlertConsumer"}

\* the \w+ path arguments clients connect with
PathIds == {"U1", "V1", "D1", "S1"}

\* room_group_name as connect() builds it from the path argument
room_group_name(consumer, id) ==
    CASE consumer = "AlertConsumer" -> "alerts_user_" \o id
      [] consumer = "DashboardAlertConsumer" -> "alerts_district_" \o id
      [] consumer = "StateAlertConsumer" -> "alerts_state_" \o id

\* who opens a connection: scope['user'] as AuthMiddlewareStack fills it in, a
\* logged-in user or AnonymousUser
Clients == Users \cup {"AnonymousUser"}

\* connect(): group_add(room_group_name, channel_name), accept(); the client is
\* not looked at
Connect ==
    /\ listener = NoListener
    /\ \E c \in Consumers, id \in PathIds, client \in Clients :
         listener' = [consumer |-> c, id |-> id, group |-> room_group_name(c, id),
                      client |-> client]
    /\ UNCHANGED <<users, subs, alert, logs, published, result, dispatch, now, rounds>>
    /\ UNCHANGED aside

\* disconnect(): group_discard(room_group_name, channel_name)
Disconnect ==
    /\ listener # NoListener
    /\ listener' = NoListener
    /\ UNCHANGED <<users, subs, alert, logs, published, result, dispatch, now, rounds>>
    /\ UNCHANGED aside

\* group_send hands a message to the connections that joined its group: the
\* messages of the last call that reach the listener
Received ==
    IF listener = NoListener THEN {}
    ELSE { m \in published : m.group = listener.group }

StreamsNext ==
    \/ Connect
    \/ Disconnect
    \/ CreateAlert
    \/ SendAlert

Streams == LifecycleInit /\ [][StreamsNext]_vars


\* ------------------------------------------------------------ the SMS text
\* `if len(message) > 160`
SMS_LIMIT == 160
\* `message[:157] + "..."`
SMS_KEEP == 157

\* a text of n characters c
RECURSIVE Rep(_, _)
Rep(c, n) ==
    IF n = 0 THEN ""
    ELSE LET half == Rep(c, n \div 2)
         IN  half \o half \o (IF n % 2 = 1 THEN c ELSE "")

\* alert.village.name if alert.village else 'Unknown'
village_name(v) == IF v = NULL THEN "Unknown" ELSE v

Lit(t) == [kind |-> "text", is |-> t]
Field(f) == [kind |-> "field", is |-> f]

\* str.format(title=, message=, village=, severity=) over a template given as
\* its literal parts and replacement fields: a field not among the keyword
\* arguments raises KeyError
RECURSIVE format(_, _)
format(template, kw) ==
    IF template = <<>> THEN [raised |-> FALSE, text |-> ""]
    ELSE LET part == Head(template)
             rest == format(Tail(template), kw)
         IN  IF part.kind = "field" /\ part.is \notin DOMAIN kw
             THEN [raised |-> TRUE, text |-> ""]
             ELSE IF rest.raised THEN rest
             ELSE [raised |-> FALSE,
                   text |-> (IF part.kind = "field" THEN kw[part.is] ELSE part.is)
                            \o rest.text]

\* the text is handed on as formatted
truncate_never(message) == message

\* if len(message) > 160: message = message[:157] + "..."
truncate(message) ==
    IF Len(message) > SMS_LIMIT THEN SubSeq(message, 1, SMS_KEEP) \o "..." ELSE message

\* the message of send_sms before (raw) and after (text) the truncation, with
\* the active SMS template of the category or, if there is none (NULL), with
\* the built-in wording; raised if the formatting raises
sms_message(title, message, village, severity, template) ==
    LET made == IF template # NULL
                THEN format(template, [title |-> title, message |-> message,
                                       village |-> village_name(village),
                                       severity |-> severity])
                ELSE [raised |-> FALSE,
                      text |-> "Health Alert: " \o title \o " in "
                               \o village_name(village) \o ". " \o message]
    IN  [raised |-> made.raised, raw |-> made.text,
         text |-> IF made.raised THEN "" ELSE truncate(made.text)]

\* AlertNotification.title (CharField), by length
TitleInputs == { Rep("t", n) : n \in {0, 20} }

\* AlertNotification.message (TextField), by length: short, around the limit
\* of the text as a whole, long
MessageInputs == { Rep("m", n) : n \in {0, 200} \cup (100 .. 125) }

\* AlertTemplate.message_template: none, one that uses every keyword, one that
\* names a keyword send_sms does not pass
TemplateInputs ==
    { NULL,
      <<Field("severity"), Lit(": "), Field("title"), Lit(" at "), Field("village"),
        Lit(" - "), Field("message")>>,
      <<Field("title"), Lit(" "), Field("district")>> }

\* the part of send_sms that builds the text handed to the provider or logged
\* in test mode
SmsText ==
    /\ \E title \in TitleInputs, message \in MessageInputs,
          village \in {NULL, "V1"}, template \in TemplateInputs :
         \E made \in {sms_message(title, message, village, "HIGH", template)} :
            lastcall' = [op |-> "send_sms", title |-> title, message |-> message,
                         village |-> village, template |-> template,
                         raised |-> made.raised, raw |-> made.raw,
                         text |-> made.text]
    /\ UNCHANGED <<users, subs, alert, logs, published, result, dispatch, now, rounds,
                   listener, files, predictor, workers>>

\* ------------------------------------------------------- risk and safety rules
\* outbreak_probability, in hundredths
Probabilities == {0, 10, 39, 40, 41, 45, 59, 60, 61, 65, 79, 80, 81, 85, 100}

\* the bucketing of the prediction page: High above 0.7, Medium above 0.4
risk_level_of_page(p) ==
    IF p > 70 THEN "High" ELSE IF p > 40 THEN "Medium" ELSE "Low"

\* WaterborneDiseaseData.risk_level
risk_level(p) ==
    IF p > 80 THEN "Critical"
    ELSE IF p > 60 THEN "High"
    ELSE IF p > 40 THEN "Medium"
    ELSE "Low"

\* reading risk_level of two WaterborneDiseaseData rows
RiskLevel ==
    /\ \E p, q \in Probabilities :
         lastcall' = [op |-> "risk_level",
                      low |-> [outbreak_probability |-> p, risk_level |-> risk_level(p)],
                      high |-> [outbreak_probability |-> q, risk_level |-> risk_level(q)]]
    /\ UNCHANGED <<users, subs, alert, logs, published, result, dispatch, now, rounds,
                   listener, files, predictor, workers>>

\* a row of the water quality CSV: E. coli per 100 ml, turbidity and pH in tenths
EcoliInputs == {0, 2, 9, 10, 11, 50, 51, 100, 101, 150}
TurbidityInputs == {0, 5, 50, 51, 60}
PhInputs == {50, 64, 65, 70, 72, 85, 86}

\* the contamination level create_water_quality_data_from_csv derives
contamination_level(ecoli_count) ==
    IF ecoli_count > 100 THEN "HIGH_RISK"
    ELSE IF ecoli_count > 50 THEN "MODERATE_RISK"
    ELSE IF ecoli_count > 10 THEN "LOW_RISK"
    ELSE "SAFE"

\* one row of create_water_quality_data_from_csv: the WaterQualityTest created
CreateWaterQualityTest ==
    /\ \E e \in EcoliInputs, t \in TurbidityInputs, ph \in PhInputs :
         lastcall' = [op |-> "water_quality_test", ecoli_count |-> e,
                      turbidity_ntu |-> t, ph |-> ph,
                      is_safe_for_drinking |-> e < 10,
                      contamination_level |-> contamination_level(e)]
    /\ UNCHANGED <<users, subs, alert, logs, published, result, dispatch, now, rounds,
                   listener, files, predictor, workers>>

\* nothing stored and nobody connected
QuietInit ==
    /\ users = [u \in Users |-> [email |-> TRUE, phone_number |-> TRUE]]
    /\ subs = <<>>
    /\ alert = NoAlert
    /\ logs = <<>>
    /\ published = {}
    /\ result = NoResult
    /\ dispatch = NoDispatch
    /\ now = 0
    /\ rounds = 0
    /\ listener = NoListener

RulesNext ==
    \/ SmsText
    \/ RiskLevel
    \/ CreateWaterQualityTest

RulesInit == QuietInit /\ AsideInit

Rules == RulesInit /\ [][RulesNext]_vars

\* ------------------------------------------------------ outbreak prediction
\* what joblib.load finds at the path of an artifact: a readable file, no
\* file (FileNotFoundError), a file that cannot be unpickled (another error)
FileConditions == {"ok", "missing", "corrupt"}

\* the artifact directories explored: complete, one artifact missing or
\* unreadable, nothing saved yet
FileTables ==
    { Trained, [f \in Artifacts |-> "missing"] }
    \cup { [Trained EXCEPT ![f] = c] : f \in Artifacts, c \in {"missing", "corrupt"} }

\* OutbreakPredictor(): no model, no encoders, a StandardScaler not yet fitted
Fresh ==
    [classifier |-> NULL, regressor |-> NULL, safety_classifier |-> NULL,
     disease_classifier |-> NULL, label_encoders |-> "empty", scaler |-> "unfitted"]

\* one assignment `self.attr = joblib.load(...)` of load_models on the way
\* (go.ret = "running"): a missing file ends the call with False, an unreadable
\* one with an exception that is not caught; the assignments made stay
Required(go, attr, artifact, disk) ==
    IF go.ret # "running" THEN go
    ELSE IF disk[artifact] = "missing" THEN [go EXCEPT !.ret = "False"]
    ELSE IF disk[artifact] = "corrupt" THEN [go EXCEPT !.ret = "raised"]
    ELSE [go EXCEPT !.self[attr] = "loaded"]

\* an optional model: any error of joblib.load leaves the attribute None
Optional(go, attr, artifact, disk) ==
    IF go.ret # "running" THEN go
    ELSE IF disk[artifact] = "ok" THEN [go EXCEPT !.self[attr] = "loaded"]
    ELSE [go EXCEPT !.self[attr] = NULL]

\* OutbreakPredictor.load_models: what the call returns ("True", "False", or
\* "raised" for an exception leaving it) and the object afterwards
load_models(self, disk) ==
    LET a == Required([ret |-> "running", self |-> self], "classifier", "classifier", disk)
        b == Required(a, "regressor", "regressor", disk)
        c == Optional(b, "safety_classifier", "safety_classifier", disk)
        d == Optional(c, "disease_classifier", "disease_classifier", disk)
        e == Required(d, "label_encoders", "encoders", disk)
        f == Required(e, "scaler", "scaler", disk)
    IN  IF f.ret = "running" THEN [f EXCEPT !.ret = "True"] ELSE f

\* the outbreak probabilities (hundredths) a trained regressor may predict
Predicted == {30, 75}

\* OutbreakPredictor.predict: ValueError without classifier or regressor,
\* NotFittedError from scaler.transform of a scaler never fitted, else the
\* predictions
predict(self, p) ==
    IF self.classifier = NULL \/ self.regressor = NULL
    THEN [raised |-> TRUE, error |-> "Models not trained. Call train() first.",
          outbreak_probability |-> 0]
    ELSE IF self.scaler = "unfitted"
    THEN [raised |-> TRUE, error |-> "NotFittedError", outbreak_probability |-> 0]
    ELSE [raised |-> FALSE, error |-> NoKey, outbreak_probability |-> p]

\* OutbreakPredictor()
Construct ==
    /\ predictor' = Fresh
    /\ lastcall' = [op |-> "OutbreakPredictor"]
    /\ UNCHANGED <<users, subs, alert, logs, published, result, dispatch, now, rounds,
                   listener, files, workers>>

\* predictor.load_models(path)
LoadModels ==
    /\ predictor # NoPredictor
    /\ \E done \in {load_models(predictor, files)} :
         /\ predictor' = done.self
         /\ lastcall' = [op |-> "load_models", ret |-> done.ret, before |-> predictor]
    /\ UNCHANGED <<users, subs, alert, logs, published, result, dispatch, now, rounds,
                   listener, files, workers>>

\* predictor.predict(df)
Predict ==
    /\ predictor # NoPredictor
    /\ \E p \in Predicted :
         \E out \in {predict(predictor, p)} :
            lastcall' = [op |-> "predict", raised |-> out.raised, error |-> out.error,
                         outbreak_probability |-> out.outbreak_probability]
    /\ UNCHANGED <<users, subs, alert, logs, published, result, dispatch, now, rounds,
                   listener, files, predictor, workers>>

\* the fields of the prediction form the rules look at: E. coli per 100 ml,
\* turbidity in tenths of NTU, sanitation score, monsoon season
Forms ==
    { [ecoli_count_per_100ml |-> e, turbidity_ntu |-> t, sanitation_score |-> s,
       is_monsoon_season |-> m] :
        e \in {2, 150}, t \in {5, 60}, s \in {1, 3}, m \in BOOLEAN }

\* the fallback score of the prediction page, in hundredths
risk_score(form) ==
    (IF form.ecoli_count_per_100ml > 100 THEN 30 ELSE 0)
    + (IF form.turbidity_ntu > 50 THEN 20 ELSE 0)
    + (IF form.sanitation_score < 2 THEN 30 ELSE 0)
    + (IF form.is_monsoon_season THEN 20 ELSE 0)

\* 'High' if p > 0.7 else 'Medium' if p > 0.4 else 'Low'
page_risk_level(p) ==
    IF p > 70 THEN "High" ELSE IF p > 40 THEN "Medium" ELSE "Low"

\* prediction_result = None
NoPrediction == [source |-> "none"]

\* the POST branch of the prediction view for a well-formed form: a new
\* predictor, load_models, then predict or the rules; any exception ends in
\* error_message with no prediction_result
prediction(form, disk, p) ==
    LET loaded == load_models(Fresh, disk)
    IN  IF loaded.ret = "raised"
        THEN [prediction_result |-> NoPrediction, error_message |-> "load_models"]
        ELSE IF loaded.ret = "True"
        THEN LET out == predict(loaded.self, p)
             IN  IF out.raised
                 THEN [prediction_result |-> NoPrediction, error_message |-> out.error]
                 ELSE [prediction_result |->
                           [source |-> "model",
                            outbreak_probability |-> out.outbreak_probability,
                            risk_level |-> page_risk_level(out.outbreak_probability)],
                       error_message |-> NULL]
        ELSE LET score == risk_score(form)
             IN  [prediction_result |->
                      [source |-> "rules",
                       outbreak_probability |-> IF score < 100 THEN score ELSE 100,
                       risk_level |-> page_risk_level(score)],
                  error_message |-> NULL]

PredictionPage ==
    /\ \E form \in Forms, p \in Predicted :
         \E page \in {prediction(form, files, p)} :
            lastcall' = [op |-> "prediction", form |-> form,
                         prediction_result |-> page.prediction_result,
                         error_message |-> page.error_message]
    /\ UNCHANGED <<users, subs, alert, logs, published, result, dispatch, now, rounds,
                   listener, files, predictor, workers>>

PredictorInit ==
    /\ QuietInit
    /\ lastcall = NoCall
    /\ files \in FileTables
    /\ predictor = NoPredictor
    /\ workers = [w \in Workers |-> Idle]

PredictorNext ==
    \/ Construct
    \/ LoadModels
    \/ Predict
    \/ PredictionPage

Predictor == PredictorInit /\ [][PredictorNext]_vars

\* ---------------------------------------------------- concurrent operations
\* the operations of the alert service a process may run on the alert
Operations == {"send_alert", "acknowledge_alert", "resolve_alert"}

\* the row is read again from the database before it is changed
instance_refreshed(copy, stored) == stored

\* the AlertNotification instance an operation works on: the object its caller
\* read earlier, never refreshed from the database
instance(copy, stored) == copy

\* Model.save() without update_fields writes every column of the instance
save(row, stored) == row

\* a process reads the alert row and is about to call op with it
Load ==
    /\ alert # NoAlert
    /\ \E w \in Workers, op \in Operations :
         /\ workers[w].pc = "idle"
         /\ workers' = [workers EXCEPT ![w] = [pc |-> "loaded", op |-> op,
                                                copy |-> alert]]
    /\ UNCHANGED <<users, subs, alert, logs, published, result, dispatch, now, rounds,
                   listener, lastcall, files, predictor>>

\* what the process leaves behind once its operation has ended: seen is the
\* counter of the row it had read, before and after are the stored row around
\* its save, round tells whether a fan-out round was completed
Ended(w, saved, round) ==
    [workers EXCEPT ![w] = [pc |-> "done", op |-> workers[w].op,
                            seen |-> workers[w].copy.delivery_attempts,
                            round |-> round,
                            before |-> alert,
                            after |-> saved]]

\* the process runs send_alert on its instance to the end
FinishSendAlert ==
    /\ \E w \in Workers, env \in Environments :
         /\ workers[w].pc = "loaded"
         /\ workers[w].op = "send_alert"
         /\ \E row \in {instance(workers[w].copy, alert)} :
            \E done \in {send_alert(row, subs, users, env)} :
              /\ alert' = save(done.saved, alert)
              /\ logs' = logs \o done.rows
              /\ published' = done.published
              /\ rounds' = IF done.saved # row THEN rounds + 1 ELSE rounds
              /\ workers' = Ended(w, save(done.saved, alert), done.saved # row)
    /\ UNCHANGED <<users, subs, result, dispatch, now, listener, lastcall, files,
                   predictor>>

\* the process runs acknowledge_alert or resolve_alert on its instance to the end
FinishStatusChange ==
    /\ \E w \in Workers, user \in Users, env \in Environments :
         /\ workers[w].pc = "loaded"
         /\ workers[w].op # "send_alert"
         /\ \E row \in {instance(workers[w].copy, alert)} :
            \E done \in {IF workers[w].op = "acknowledge_alert"
                         THEN acknowledge_alert(row, user, now, env)
                         ELSE resolve_alert(row, user, now, env)} :
              /\ alert' = save(done.saved, alert)
              /\ published' = done.published
              /\ workers' = Ended(w, save(done.saved, alert), FALSE)
    /\ UNCHANGED <<users, subs, logs, result, dispatch, now, rounds, listener, lastcall,
                   files, predictor>>

ConcurrentNext ==
    \/ CreateAlert
    \/ Load
    \/ FinishSendAlert
    \/ FinishStatusChange

Concurrent == LifecycleInit /\ [][ConcurrentNext]_vars

\* --------------------------------------------------------------- properties
\* a call of send_alert has just returned or raised
Called == result.kind # "none"

\* the resolver of the call that has just ended returned a list
Resolved == Called /\ dispatch.resolved

\* the scope of an alert, district and state derived from the village if set
AlertVillage(a) == a.village
AlertDistrict(a) == IF a.village # NULL THEN block_district(a.village) ELSE a.district
AlertState(a) ==
    IF a.village # NULL THEN district_state(block_district(a.village))
    ELSE IF a.district # NULL /\ a.state = NULL THEN district_state(a.district)
    ELSE a.state

\* the compatibility rule of the matching contract
ScopeCompatible(a, s) ==
    \/ (s.village # NULL /\ s.village = AlertVillage(a))
    \/ (s.village = NULL /\ s.district # NULL /\ s.district = AlertDistrict(a))
    \/ (s.village = NULL /\ s.district = NULL /\ s.state # NULL /\ s.state = AlertState(a))
    \/ (s.village = NULL /\ s.district = NULL /\ s.state = NULL)

RuleMatches(a, s) ==
    /\ s.is_active
    /\ s.alert_type = a.alert_type
    /\ index(s.min_severity) <= index(a.alert_severity)
    /\ ScopeCompatible(a, s)

\* the channels handed to the adapters for user u, in order
RECURSIVE MethodsIn(_)
MethodsIn(calls) ==
    IF calls = <<>> THEN <<>>
    ELSE <<Head(calls).delivery_method>> \o MethodsIn(Tail(calls))

MethodsAttempted(u) == MethodsIn(SelectSeq(dispatch.attempts, LAMBDA x : x.user = u))

Listed(s) == { s.delivery_methods[k] : k \in DOMAIN s.delivery_methods }

\* C1: the resolver admits a subscription row exactly when the row is active, of
\* the alert's category, passes the severity gate and is scope-compatible with
\* the alert (its village, else its district, else its state, or no place at all)
C1_AdmitsIffRuleMatches ==
    Resolved =>
        \A i \in dispatch.queried :
            (i \in dispatch.admitted) <=> RuleMatches(alert, subs[i])

\* C2: in one dispatch to one subscriber every channel of the subscription's
\* delivery_methods list is handed to its adapter, whatever the earlier ones did
C2_EveryListedChannelAttempted ==
    Resolved =>
        \A x \in dispatch.used :
            x.pk # 0 => MethodsAttempted(x.user) = subs[x.pk].delivery_methods

\* C3: every adapter call of the dispatch has exactly one log row, for the same
\* user and channel, carrying the outcome's status and error text
C3_OneLogRowPerAttempt ==
    Resolved =>
        /\ Len(dispatch.rows) = Len(dispatch.attempts)
        /\ \A k \in DOMAIN dispatch.attempts :
             k \in DOMAIN dispatch.rows =>
                /\ dispatch.rows[k].user = dispatch.attempts[k].user
                /\ dispatch.rows[k].delivery_method = dispatch.attempts[k].delivery_method
                /\ dispatch.rows[k].delivery_status = dispatch.attempts[k].outcome.status
                /\ dispatch.attempts[k].outcome.error # NoKey =>
                      dispatch.rows[k].error_message = dispatch.attempts[k].outcome.error

\* C4: every outcome an adapter or send_via_method returns holds a success flag
\* and a status of the delivery-status enumeration
C4_OutcomeHasSuccessAndStatus ==
    \A k \in DOMAIN dispatch.attempts :
        /\ dispatch.attempts[k].outcome.success \in BOOLEAN
        /\ dispatch.attempts[k].outcome.status \in DELIVERY_STATUS

\* C5: a channel is attempted for a subscriber only if a subscription of that
\* user that matched the alert lists it; the list of a row that did not match
\* (inactive, another place, a higher minimum severity) is never used
C5_ChannelsOfMatchingSubscription ==
    Resolved =>
        \A k \in DOMAIN dispatch.attempts :
            \E i \in dispatch.admitted :
                /\ subs[i].user = dispatch.attempts[k].user
                /\ dispatch.attempts[k].delivery_method \in Listed(subs[i])

\* C6: the list of subscribers the resolver returns holds each user at most once
C6_NoDuplicateSubscribers ==
    \A i, j \in DOMAIN dispatch.subscribers :
        i # j => dispatch.subscribers[i] # dispatch.subscribers[j]

\* a user with two admitted rows is in the returned list
C6_Witness ==
    /\ Resolved
    /\ \E i, j \in dispatch.admitted : i # j /\ subs[i].user = subs[j].user
    /\ dispatch.subscribers # <<>>

\* C7: a dispatch that resolves no subscriber returns success=False with the
\* no-subscribers error, does not raise, calls no adapter and creates no log row
C7_NoSubscribersResult ==
    (Resolved /\ dispatch.subscribers = <<>>) =>
        /\ result.kind = "returned"
        /\ result.success = FALSE
        /\ result.error = "No subscribers found"
        /\ dispatch.attempts = <<>>
        /\ dispatch.rows = <<>>

\* subscriptions exist, none is admitted, and the call has returned
C7_Witness ==
    /\ Resolved
    /\ subs # <<>>
    /\ dispatch.admitted = {}
    /\ dispatch.subscribers = <<>>
    /\ result.error = "No subscribers found"

\* the subscribers of the call for whom some adapter call succeeded
Reached ==
    { u \in Users :
        \E k \in DOMAIN dispatch.attempts :
            dispatch.attempts[k].user = u /\ dispatch.attempts[k].outcome.success }

\* C8: send_alert reports success exactly when some subscriber had a channel
\* delivery that succeeded; successful_deliveries counts those subscribers and
\* does not exceed total_subscribers
C8_SuccessIffSomeDelivery ==
    Resolved =>
        /\ result.success <=> (Reached # {})
        /\ dispatch.subscribers # <<>> =>
              /\ result.successful_deliveries = Cardinality(Reached)
              /\ result.successful_deliveries <= result.total_subscribers

\* C9: no exception leaves send_alert; a failure of the resolver comes back as a
\* dict with success=False and an error text, and failed deliveries come back
\* inside one result per subscriber
C9_NeverRaises ==
    /\ result.kind \in {"none", "returned"}
    /\ (Called /\ ~dispatch.resolved) =>
          (result.success = FALSE /\ result.error # NoKey)
    /\ (Resolved /\ dispatch.subscribers # <<>>) =>
          Len(result.results) = Len(dispatch.subscribers)

\* the resolver raised on a severity outside the ordered list and the caller
\* got the structured failure
C9_Witness ==
    /\ Called
    /\ ~dispatch.resolved
    /\ ~InOrder(alert.alert_severity)
    /\ result.kind = "returned"
    /\ result.error = "ValueError"

\* the rows of the end-to-end scenario
ScenarioU1 ==
    Sub("U1", "WATER_CONTAMINATION", TRUE, Scope("V1", NULL, NULL), "MEDIUM",
        <<"EMAIL", "DASHBOARD">>)
ScenarioU2 ==
    Sub("U2", "WATER_CONTAMINATION", TRUE, Scope(NULL, NULL, "S1"), "CRITICAL",
        <<"SMS">>)

Scenario ==
    /\ Resolved
    /\ subs = <<ScenarioU1, ScenarioU2>>
    /\ alert.alert_severity = "HIGH"
    /\ alert.village = "V1" /\ alert.district = NULL /\ alert.state = NULL

\* C10: in the end-to-end scenario the dispatch makes an email and a dashboard
\* attempt for U1, logged in two rows, none for U2, and reports one successful
\* subscriber out of one resolved
C10_EndToEnd ==
    Scenario =>
        /\ MethodsAttempted("U1") = <<"EMAIL", "DASHBOARD">>
        /\ MethodsAttempted("U2") = <<>>
        /\ Len(dispatch.rows) = 2
        /\ \A k \in DOMAIN dispatch.rows : dispatch.rows[k].user = "U1"
        /\ result.total_subscribers = 1
        /\ result.successful_deliveries = 1

\* C11: attempt numbers strictly increase per alert, user and channel: of two
\* rows logged for the same user over the same channel the later one carries the
\* higher attempt number, so no number is used twice
C11_AttemptNumbersIncrease ==
    \A k, l \in DOMAIN logs :
        (k < l /\ logs[k].user = logs[l].user
               /\ logs[k].delivery_method = logs[l].delivery_method)
            => logs[k].delivery_attempt < logs[l].delivery_attempt

\* C12: every completed fan-out round over a non-empty subscriber list adds
\* exactly one to delivery_attempts, whatever the number of subscribers and
\* channels: the counter of an alert created with 0 equals the number of rounds
C12_CounterCountsRounds ==
    alert # NoAlert => alert.delivery_attempts = rounds

\* a second round has just ended, and it covered two subscribers
C12_Witness ==
    /\ Resolved
    /\ rounds = 2
    /\ alert.delivery_attempts = 2
    /\ Len(dispatch.subscribers) = 2
    /\ Len(dispatch.attempts) > 2

\* a fan-out round of send_alert has just ended
RoundEnded ==
    /\ dispatch.op = "send_alert"
    /\ dispatch.resolved
    /\ dispatch.subscribers # <<>>

\* C13: after a fan-out round last_delivery_attempt holds the time at which the
\* round ran, so it is not earlier than the start of the dispatch
C13_LastAttemptIsDispatchTime ==
    RoundEnded => alert.last_delivery_attempt >= dispatch.at

\* C14: once RESOLVED, no operation of the alert service changes alert_status
\* again: an alert that carries a resolution time is still RESOLVED
C14_TerminalStatusStays ==
    (alert # NoAlert /\ alert.resolved_at # NoTime) => alert.alert_status = "RESOLVED"

\* C15: in every stored state an ACKNOWLEDGED alert names who acknowledged it
\* and when, and a RESOLVED alert names who resolved it and when
C15_StatusWithActorAndTime ==
    alert # NoAlert =>
        /\ alert.alert_status = "ACKNOWLEDGED" =>
               (alert.acknowledged_by # NULL /\ alert.acknowledged_at # NoTime)
        /\ alert.alert_status = "RESOLVED" =>
               (alert.resolved_by # NULL /\ alert.resolved_at # NoTime)

\* U2 has just acknowledged an alert that U1 resolved earlier
C15_Witness ==
    /\ dispatch.op = "acknowledge_alert"
    /\ alert.alert_status = "ACKNOWLEDGED"
    /\ alert.acknowledged_by = "U2"
    /\ alert.acknowledged_at = now
    /\ alert.resolved_by = "U1"

\* the groups of the places an alert lies in, district and state derived
ScopeGroups(a) ==
    (IF AlertVillage(a) # NULL THEN {"alerts_village_" \o AlertVillage(a)} ELSE {})
    \cup (IF AlertDistrict(a) # NULL THEN {"alerts_district_" \o AlertDistrict(a)} ELSE {})
    \cup (IF AlertState(a) # NULL THEN {"alerts_state_" \o AlertState(a)} ELSE {})

\* C16: with a working channel layer the broadcast of an alert of village V
\* goes to the group of V, of V's district and of that district's state, and to
\* no other group, also when only the village is set on the alert
C16_BroadcastReachesScopeGroups ==
    (RoundEnded /\ dispatch.layer = "ok" /\ alert.village # NULL)
        => { m.group : m \in dispatch.broadcast } = ScopeGroups(alert)

\* C17: the scope-wide broadcast does not depend on the resolver: with a working
\* channel layer a dispatch that resolves no subscriber still publishes the
\* alert to the groups of its scope
C17_BroadcastWithoutSubscribers ==
    (dispatch.op = "send_alert" /\ dispatch.resolved /\ dispatch.subscribers = <<>>
        /\ dispatch.layer = "ok")
        => GroupSends(alert, NULL) \subseteq published

\* C18: the two message kinds can be told apart: what acknowledge_alert and
\* resolve_alert publish is an "alert_update", what send_alert publishes is a
\* "new_alert"
C18_MessageKinds ==
    \A m \in published :
        m.type = IF dispatch.op = "send_alert" THEN "new_alert" ELSE "alert_update"

\* C19: every group the fan-out publishes to is the group of a stream listeners
\* can register on, and a listener registered on it receives the message
C19_PublishedGroupsHaveListeners ==
    \A m \in published :
        /\ \E c \in Consumers, id \in PathIds : room_group_name(c, id) = m.group
        /\ (listener # NoListener /\ listener.group = m.group) => m \in Received

\* C20: a failing broadcast never fails or undoes the persistence step:
\* acknowledge_alert and resolve_alert return True and the status is stored,
\* send_alert has appended its log rows and counted the round
C20_BroadcastFailureKeepsPersistence ==
    dispatch.layer \in {"absent", "error"} =>
        /\ dispatch.op = "acknowledge_alert" =>
               (result.success /\ alert.alert_status = "ACKNOWLEDGED")
        /\ dispatch.op = "resolve_alert" =>
               (result.success /\ alert.alert_status = "RESOLVED")
        /\ RoundEnded =>
               /\ result.kind = "returned"
               /\ result.error = NoKey
               /\ dispatch.rows # <<>>
               /\ SubSeq(logs, Len(logs) - Len(dispatch.rows) + 1, Len(logs))
                      = dispatch.rows
               /\ alert.delivery_attempts = rounds

\* group_send raised while a second fan-out round was broadcast, after an
\* acknowledgement
C20_Witness ==
    /\ RoundEnded
    /\ dispatch.layer = "error"
    /\ alert.alert_status = "ACKNOWLEDGED"
    /\ alert.village # NULL
    /\ rounds = 2

\* C21: the SMS text handed to the provider is at most 160 characters long,
\* with or without a template, and a text of 160 characters or fewer is sent
\* as it was formatted
C21_SmsTextWithinLimit ==
    (lastcall.op = "send_sms" /\ ~lastcall.raised) =>
        /\ Len(lastcall.text) <= 160
        /\ Len(lastcall.raw) <= 160 => lastcall.text = lastcall.raw

\* a templated text of more than 160 characters was cut to exactly 160
C21_Witness ==
    /\ lastcall.op = "send_sms"
    /\ ~lastcall.raised
    /\ SubSeq(lastcall.raw, 1, 6) = "HIGH: "
    /\ Len(lastcall.raw) = 161
    /\ Len(lastcall.text) = 160

\* the risk levels in rising order
RiskRank(level) ==
    CASE level = "Low" -> 0 [] level = "Medium" -> 1 [] level = "High" -> 2
      [] level = "Critical" -> 3

\* the level the claim names for a probability, Low to Critical with the
\* cut-points 0.4, 0.6 and 0.8
Bucket(p) ==
    Cardinality({ c \in {40, 60, 80} : p > c })

\* C22: 0.85 is Critical, 0.65 High, 0.45 Medium and 0.1 Low; each probability
\* falls in exactly one of the four buckets, the level never falls when the
\* probability rises, and it changes at 0.8, 0.6 and 0.4 only
C22_RiskBuckets ==
    lastcall.op = "risk_level" =>
        LET a == lastcall.low
            b == lastcall.high
        IN  /\ a.risk_level \in {"Low", "Medium", "High", "Critical"}
            /\ a.outbreak_probability = 85 => a.risk_level = "Critical"
            /\ a.outbreak_probability = 65 => a.risk_level = "High"
            /\ a.outbreak_probability = 45 => a.risk_level = "Medium"
            /\ a.outbreak_probability = 10 => a.risk_level = "Low"
            /\ a.outbreak_probability <= b.outbreak_probability
                  => RiskRank(a.risk_level) <= RiskRank(b.risk_level)
            /\ (a.risk_level = b.risk_level)
                  <=> (Bucket(a.outbreak_probability) = Bucket(b.outbreak_probability))

\* a row at 0.8 and a row just above it lie in different buckets
C22_Witness ==
    /\ lastcall.op = "risk_level"
    /\ lastcall.low.outbreak_probability = 80
    /\ lastcall.low.risk_level = "High"
    /\ lastcall.high.outbreak_probability = 81
    /\ lastcall.high.risk_level = "Critical"

\* C23: a reading is classified as not safe whenever its E. coli count exceeds
\* the threshold or its turbidity exceeds 5 NTU or its pH lies outside
\* [6.5, 8.5]; E. coli 150, turbidity 6, pH 7.0 gives HIGH_RISK or stricter and
\* E. coli 2, turbidity 0.5, pH 7.2 gives SAFE
C23_UnsafeByAnyRule ==
    lastcall.op = "water_quality_test" =>
        /\ (\/ lastcall.ecoli_count > 10
             \/ lastcall.turbidity_ntu > 50
             \/ lastcall.ph < 65
             \/ lastcall.ph > 85)
               => (lastcall.contamination_level # "SAFE"
                   /\ ~lastcall.is_safe_for_drinking)
        /\ (lastcall.ecoli_count = 150 /\ lastcall.turbidity_ntu = 60
               /\ lastcall.ph = 70)
               => lastcall.contamination_level \in {"HIGH_RISK", "UNSAFE"}
        /\ (lastcall.ecoli_count = 2 /\ lastcall.turbidity_ntu = 5
               /\ lastcall.ph = 72)
               => lastcall.contamination_level = "SAFE"

\* a trained model is available: the artifacts the prediction needs can be read
ModelAvailable ==
    \A f \in {"classifier", "regressor", "encoders", "scaler"} : files[f] = "ok"

\* C24: when no trained model is available, because an artifact file is
\* missing or cannot be loaded, the prediction page answers with the result of
\* the rules, not with an error
C24_FallbackWithoutModel ==
    (lastcall.op = "prediction" /\ ~ModelAvailable) =>
        /\ lastcall.error_message = NULL
        /\ lastcall.prediction_result.source = "rules"

\* C30: a load_models that returns False leaves the predictor as it was before
\* the call, so a predict() on a predictor that was fresh raises 'Models not
\* trained' and no model stays loaded without its encoders and scaler
C30_FailedLoadLeavesPredictor ==
    (lastcall.op = "load_models" /\ lastcall.ret = "False") =>
        /\ predictor = lastcall.before
        /\ lastcall.before = Fresh =>
               \A p \in Predicted :
                   predict(predictor, p).error = "Models not trained. Call train() first."
        /\ predictor.classifier = "loaded" =>
               (predictor.label_encoders = "loaded" /\ predictor.scaler = "loaded")

\* process w has completed a fan-out round of send_alert
RoundDone(w) ==
    /\ workers[w].pc = "done"
    /\ workers[w].op = "send_alert"
    /\ workers[w].round

\* C25: two rounds for the same alert that overlap, each working on the row as
\* it read it before the other saved, lose an update: when both have completed,
\* the stored delivery_attempts is one above the value both read
C25_OverlappingRoundsLoseUpdate ==
    (RoundDone("W1") /\ RoundDone("W2") /\ workers["W1"].seen = workers["W2"].seen)
        => alert.delivery_attempts = workers["W1"].seen + 1

\* both rounds are completed and the counter has risen from 0 to 1 only
C25_Witness ==
    /\ RoundDone("W1") /\ RoundDone("W2")
    /\ workers["W1"].seen = 0 /\ workers["W2"].seen = 0
    /\ rounds = 2
    /\ alert.delivery_attempts = 1

\* the columns acknowledge_alert and resolve_alert write
StatusColumns(row) ==
    [alert_status |-> row.alert_status,
     acknowledged_by |-> row.acknowledged_by, acknowledged_at |-> row.acknowledged_at,
     resolved_by |-> row.resolved_by, resolved_at |-> row.resolved_at]

\* C26: a dispatch round changes only delivery_attempts and
\* last_delivery_attempt of the stored alert: the status, actor and time that
\* an acknowledge_alert or resolve_alert stored between the dispatcher's read
\* and its save are still in place after the dispatcher's save
C26_DispatchKeepsStatusColumns ==
    \A w \in Workers :
        RoundDone(w) => StatusColumns(workers[w].after) = StatusColumns(workers[w].before)

\* the subscription names a village or a district other than the alert's
Foreign(a, s) ==
    \/ (s.village # NULL /\ s.village # AlertVillage(a))
    \/ (s.district # NULL /\ s.district # AlertDistrict(a))

\* the active subscriptions of user u for the category of the alert
ActiveOf(u) ==
    { i \in DOMAIN subs : subs[i].user = u /\ subs[i].is_active
                            /\ subs[i].alert_type = alert.alert_type }

\* C27: a user whose only active subscriptions for the alert's category name a
\* village or district different from the alert's is never in the output of
\* get_alert_subscribers, whichever scope fields are set on the alert
C27_ForeignSubscribersExcluded ==
    Resolved =>
        \A k \in DOMAIN dispatch.subscribers :
            \E i \in ActiveOf(dispatch.subscribers[k]) : ~Foreign(alert, subs[i])

\* C28: a message published to the personal group of user U is received only
\* by connections that belong to U, whatever URL the connection was opened with
C28_PersonalGroupOnlyForOwner ==
    \A m \in Received :
        \A u \in Users :
            m.group = "alerts_user_" \o u => listener.client = u

\* C29: a DASHBOARD row of the delivery log has status SENT only if a message
\* was published to the personal group of its user during the attempt
C29_DashboardSentOnlyIfPublished ==
    RoundEnded =>
        \A k \in DOMAIN dispatch.rows :
            (dispatch.rows[k].delivery_method = "DASHBOARD"
                /\ dispatch.rows[k].delivery_status = "SENT")
                => \E m \in published :
                       m.group = "alerts_user_" \o dispatch.rows[k].user

====
